---- MODULE Spec2Model ----
(***************************************************************************)
(* Model of the contract-analysis service: the heuristic theme extractor   *)
(* and the RAG retriever of rag_retriever.py, and the analysis workflow    *)
(* and the /analyze endpoint of main_workflow.py.                          *)
(*                                                                         *)
(* Text is modelled as a sequence of one-character strings, so that        *)
(* str.lower(), str.strip(), str.join() and the "in" substring test are    *)
(* computed on characters, as the code computes them.                      *)
(***************************************************************************)
EXTENDS Integers, Sequences, FiniteSets, TLC

(***************************************************************************)
(* Bounds of the model.                                                    *)
(***************************************************************************)
MaxFragments == 3         \* fragments in a contract text
MaxRequestFragments == 1  \* fragments in the text of an /analyze request
MaxNeighbors == 2         \* largest num_neighbors asked of the vector index
MaxExtractCalls == 2      \* calls of the theme extractor in one run
MaxVerifyCalls == 2       \* calls of the legal verifier in one run
MaxClauses == 2           \* clauses in a text given to the legal verifier

VARIABLES
    text,                \* the contract text of the run
    themes,              \* the list the extractor returned last, <<>> before
    ext_log,             \* one entry for every call of the extractor
    rag_pc,              \* where get_rag_explanation is
    rag_theme,           \* its argument theme
    num_neighbors,       \* its argument num_neighbors
    question_embedding,  \* its local question_embedding
    neighbors,           \* its local neighbors
    retrieved_articles,  \* its local retrieved_articles
    prompt,              \* its local prompt
    rag_result,          \* the dictionary it returned
    rag_error,           \* the exception that left it
    calls,               \* the calls to the external services and their ends
    ml_imports,          \* ML_IMPORTS_AVAILABLE
    summarizer,          \* workflow.summarizer
    legal_verifier,      \* workflow.legal_verifier
    indian_legal_bert,   \* legal_verifier.indian_legal_bert and .tokenizer are set
    vertex_model,        \* legal_verifier.vertex_model is set
    failing_theme,       \* the theme whose embedding call is made to fail
    index_empty,         \* the vector index is set to return no neighbour
    wf_pc,               \* where the /analyze request is
    results,             \* the local results of analyze_contract
    response,            \* the HTTP response of /analyze
    wf_trace,            \* the steps analyze_contract has taken
    ver_log              \* one entry for every call of the legal verifier

ext_vars == <<text, themes, ext_log>>

rag_vars == <<rag_pc, rag_theme, num_neighbors, question_embedding, neighbors,
              retrieved_articles, prompt, rag_result, rag_error, calls>>

components == <<ml_imports, summarizer, legal_verifier, indian_legal_bert,
                vertex_model>>

env_vars == <<failing_theme, index_empty>>

wf_vars == <<components, env_vars, wf_pc, results, response, wf_trace,
             ver_log>>

vars == <<ext_vars, rag_vars, wf_vars>>

(***************************************************************************)
(* Text helpers.                                                           *)
(***************************************************************************)
Min(a, b) == IF a <= b THEN a ELSE b

LowerMap ==
    "A" :> "a" @@ "B" :> "b" @@ "C" :> "c" @@ "D" :> "d" @@ "E" :> "e" @@
    "F" :> "f" @@ "G" :> "g" @@ "H" :> "h" @@ "I" :> "i" @@ "J" :> "j" @@
    "K" :> "k" @@ "L" :> "l" @@ "M" :> "m" @@ "N" :> "n" @@ "O" :> "o" @@
    "P" :> "p" @@ "Q" :> "q" @@ "R" :> "r" @@ "S" :> "s" @@ "T" :> "t" @@
    "U" :> "u" @@ "V" :> "v" @@ "W" :> "w" @@ "X" :> "x" @@ "Y" :> "y" @@
    "Z" :> "z"

\* str.lower(): every upper-case letter is replaced, the rest is kept
Lower(s) ==
    [i \in 1..Len(s) |-> IF s[i] \in DOMAIN LowerMap THEN LowerMap[s[i]] ELSE s[i]]

\* term in s: term occurs in s as a contiguous run of characters
Contains(s, term) ==
    \E i \in 0..(Len(s) - Len(term)) : SubSeq(s, i + 1, i + Len(term)) = term

\* any(term in s for term in terms)
AnyTermIn(terms, s) ==
    \E k \in 1..Len(terms) : Contains(s, terms[k])

\* sep.join(parts)
RECURSIVE Join(_, _)
Join(sep, parts) ==
    IF parts = <<>> THEN <<>>
    ELSE IF Len(parts) = 1 THEN parts[1]
    ELSE parts[1] \o sep \o Join(sep, Tail(parts))

(***************************************************************************)
(* The heuristic theme extractor (rag_retriever.py).                       *)
(***************************************************************************)
WorkTerms ==
    << <<"e","m","p","l","o","y","m","e","n","t">>,
       <<"w","o","r","k","e","r">>,
       <<"e","m","p","l","o","y","e","e">>,
       <<"l","a","b","o","r">>,
       <<"s","e","r","v","i","c","e">> >>
CompensationTerms ==
    << <<"p","a","y","m","e","n","t">>,
       <<"s","a","l","a","r","y">>,
       <<"w","a","g","e">>,
       <<"c","o","m","p","e","n","s","a","t","i","o","n">> >>
DueProcessTerms ==
    << <<"t","e","r","m","i","n","a","t","i","o","n">>,
       <<"d","i","s","m","i","s","s","a","l">>,
       <<"e","n","d">> >>
PropertyTerms ==
    << <<"p","r","o","p","e","r","t","y">>,
       <<"o","w","n","e","r","s","h","i","p">>,
       <<"a","s","s","e","t">>,
       <<"l","a","n","d">> >>
TradeTerms ==
    << <<"t","r","a","d","e">>,
       <<"b","u","s","i","n","e","s","s">>,
       <<"c","o","m","m","e","r","c","e">>,
       <<"p","r","o","f","e","s","s","i","o","n">> >>
EqualityTerms ==
    << <<"d","i","s","c","r","i","m","i","n","a","t","i","o","n">>,
       <<"e","q","u","a","l">>,
       <<"e","q","u","a","l","i","t","y">> >>

WorkTheme == "Right to Work and Employment"
CompensationTheme == "Right to Fair Compensation"
DueProcessTheme == "Due Process and Natural Justice"
PropertyTheme == "Right to Property"
TradeTheme == "Freedom of Trade and Commerce"
EqualityTheme == "Right to Equality"
DefaultTheme == "Contract Enforceability under Indian Law"

\* a slice that keeps the whole list
FirstThreeUncapped(s) == s

\* a slice of a list that still holds the themes of the call before
FirstThreeOfKept(s) == SubSeq(themes \o s, 1, Min(3, Len(themes \o s)))

\* themes[:3]
FirstThree(s) == SubSeq(s, 1, Min(3, Len(s)))

\* the default theme appended to whatever was matched
WithDefaultAppended(matched) == Append(matched, DefaultTheme)

\* if not themes: themes = [default]
WithDefault(matched) ==
    IF matched = <<>> THEN <<DefaultTheme>> ELSE matched

\* extract_constitutional_themes_from_contract(contract_text)
extract_constitutional_themes_from_contract(contract_text) ==
    LET contract_lower == Lower(contract_text)
        t1 == IF AnyTermIn(WorkTerms, contract_lower)
              THEN <<WorkTheme>> ELSE <<>>
        t2 == IF AnyTermIn(CompensationTerms, contract_lower)
              THEN Append(t1, CompensationTheme) ELSE t1
        t3 == IF AnyTermIn(DueProcessTerms, contract_lower)
              THEN Append(t2, DueProcessTheme) ELSE t2
        t4 == IF AnyTermIn(PropertyTerms, contract_lower)
              THEN Append(t3, PropertyTheme) ELSE t3
        t5 == IF AnyTermIn(TradeTerms, contract_lower)
              THEN Append(t4, TradeTheme) ELSE t4
        t6 == IF AnyTermIn(EqualityTerms, contract_lower)
              THEN Append(t5, EqualityTheme) ELSE t5
    IN  FirstThree(WithDefault(t6))

(***************************************************************************)
(* Contract texts: up to MaxFragments fragments separated by single        *)
(* spaces.  The fragments hold capitalised keywords, keywords of five      *)
(* categories, a word that holds a keyword only as an inner substring      *)
(* ("England" holds "land"), and a word without any keyword.               *)
(***************************************************************************)
Fragments ==
    { <<"E","m","p","l","o","y","e","e"," ","s","a","l","a","r","y">>,
      <<"t","e","r","m","i","n","a","t","i","o","n">>,
      <<"E","n","g","l","a","n","d">>,
      <<"e","q","u","a","l">>,
      <<"T","r","a","d","e">>,
      <<"t","a","x">> }

FragmentLists == UNION { [1..n -> Fragments] : n \in 0..MaxFragments }

Texts == { Join(<<" ">>, ws) : ws \in FragmentLists }

(***************************************************************************)
(* The RAG retriever (rag_retriever.py, get_rag_explanation).  A text is   *)
(* a sequence of tokens: single characters, or a whole string literal of   *)
(* the code kept as one token.                                             *)
(***************************************************************************)
Whitespace == {" ", "\n", "\t"}

RECURSIVE LStrip(_)
LStrip(s) ==
    IF s # <<>> /\ Head(s) \in Whitespace THEN LStrip(Tail(s)) ELSE s

RECURSIVE RStrip(_)
RStrip(s) ==
    IF s # <<>> /\ s[Len(s)] \in Whitespace
    THEN RStrip(SubSeq(s, 1, Len(s) - 1)) ELSE s

\* str.strip()
Strip(s) == RStrip(LStrip(s))

\* the explanation returned when the index has no neighbour
NoArticlesExplanation ==
    <<"No relevant articles could be found in the Constitution of India for this topic.">>

\* the separator between two articles in the prompt
ArticleSeparator == <<"\n", "\n", "-", "-", "-", "\n", "\n">>

\* the neighbours the vector index can return: an id and the article text;
\* the neighbours 1 and 3 carry the same text
IndexNeighbors ==
    { [id |-> 1, content |-> <<"A", "1", "4">>],
      [id |-> 2, content |-> <<"A", "1", "9">>],
      [id |-> 3, content |-> <<"A", "1", "4">>] }

NeighborLists(k) == UNION { [1..n -> IndexNeighbors] : n \in 0..k }

\* the vectors the embedding service can return
Embeddings == { <<1, 0>>, <<0, 1>> }

\* the texts the generative model can return
GeneratedTexts ==
    { <<"o", "k">>,
      <<" ", "o", "k", " ", "A", "1", "4", "\n">>,
      <<"\n", " ">> }

\* the themes the retriever is asked about
RagThemes == { WorkTheme, DefaultTheme }

\* a test that never takes the early return
NeverEmpty(ns) == FALSE

\* not neighbors
NoNeighbors(ns) == ns = <<>>

\* the articles of the neighbours, last first
ContentsReversed(ns) ==
    [i \in 1..Len(ns) |-> ns[Len(ns) + 1 - i].content]

\* [neighbor.instance['content'] for neighbor in neighbors]
ContentsOf(ns) ==
    [i \in 1..Len(ns) |-> ns[i].content]

\* a context that holds the first article only
ContextOfFirst(articles) == articles[1]

\* context_string = "\n\n---\n\n".join(retrieved_articles)
ContextString(articles) == Join(ArticleSeparator, articles)

\* the prompt: the literal parts of the f-string around the context string
\* and the theme
BuildPrompt(context_string, theme) ==
    << <<"PROMPT_HEAD">>, context_string, <<"PROMPT_THEME">>, <<theme>>,
       <<"PROMPT_TASK">> >>

\* the value of a local that was not assigned yet
Unset == <<>>

InitExtractor ==
    /\ themes = <<>>
    /\ ext_log = <<>>

InitRag ==
    /\ rag_pc = "idle"
    /\ rag_theme = ""
    /\ num_neighbors = 0
    /\ question_embedding = Unset
    /\ neighbors = Unset
    /\ retrieved_articles = Unset
    /\ prompt = Unset
    /\ rag_result = [explanation |-> Unset, source_articles |-> Unset]
    /\ rag_error = "none"
    /\ calls = <<>>

\* extract_constitutional_themes_from_contract is called on the text; the
\* log keeps the text, the place the request was at, and the result
ExtractThemes ==
    /\ Len(ext_log) < MaxExtractCalls
    /\ themes' = extract_constitutional_themes_from_contract(text)
    /\ ext_log' = Append(ext_log, [text |-> text, at |-> wf_pc,
                                   themes |-> themes'])
    /\ UNCHANGED <<text, rag_vars, wf_vars>>

\* a call that queries the index with no embedding
RagCallQueriesFirst ==
    /\ rag_pc = "idle"
    /\ \E theme \in RagThemes, k \in 1..MaxNeighbors :
         /\ rag_theme' = theme
         /\ num_neighbors' = k
    /\ rag_pc' = "querying"
    /\ calls' = Append(calls, "find_neighbors.call")
    /\ UNCHANGED <<question_embedding, neighbors, retrieved_articles, prompt,
                   rag_result, rag_error, ext_vars, wf_vars>>

\* get_rag_explanation(theme, ..., num_neighbors) up to the embedding call
RagCall ==
    /\ rag_pc = "idle"
    /\ \E theme \in RagThemes, k \in 1..MaxNeighbors :
         /\ rag_theme' = theme
         /\ num_neighbors' = k
    /\ rag_pc' = "embedding"
    /\ calls' = Append(calls, "embed.call")
    /\ UNCHANGED <<question_embedding, neighbors, retrieved_articles, prompt,
                   rag_result, rag_error, ext_vars, wf_vars>>

\* get_embeddings returns; the index is queried with the vector
EmbedReturns ==
    /\ rag_pc = "embedding"
    /\ \E v \in Embeddings : question_embedding' = v
    /\ rag_pc' = "querying"
    /\ calls' = calls \o <<"embed.return", "find_neighbors.call">>
    /\ UNCHANGED <<rag_theme, num_neighbors, neighbors, retrieved_articles,
                   prompt, rag_result, rag_error, ext_vars, wf_vars>>

\* get_embeddings raises; nothing in get_rag_explanation catches it
EmbedRaises ==
    /\ rag_pc = "embedding"
    /\ rag_pc' = "raised"
    /\ rag_error' = "EmbeddingError"
    /\ calls' = Append(calls, "embed.raise")
    /\ UNCHANGED <<rag_theme, num_neighbors, question_embedding, neighbors,
                   retrieved_articles, prompt, rag_result, ext_vars, wf_vars>>

\* find_neighbors returns at most num_neighbors neighbours: with none the
\* function returns the fixed explanation, otherwise it builds the prompt
\* and calls the generative model
FindNeighborsReturns ==
    /\ rag_pc = "querying"
    /\ \E ns \in NeighborLists(num_neighbors) :
         /\ neighbors' = ns
         /\ IF NoNeighbors(ns)
            THEN /\ rag_result' = [explanation |-> NoArticlesExplanation,
                                   source_articles |-> <<>>]
                 /\ rag_pc' = "returned"
                 /\ calls' = Append(calls, "find_neighbors.return")
                 /\ UNCHANGED <<retrieved_articles, prompt>>
            ELSE /\ retrieved_articles' = ContentsOf(ns)
                 /\ prompt' = BuildPrompt(ContextString(ContentsOf(ns)),
                                         rag_theme)
                 /\ rag_pc' = "generating"
                 /\ calls' = calls \o <<"find_neighbors.return", "generate.call">>
                 /\ UNCHANGED rag_result
    /\ UNCHANGED <<rag_theme, num_neighbors, question_embedding, rag_error,
                   ext_vars, wf_vars>>

\* find_neighbors raises; nothing in get_rag_explanation catches it
FindNeighborsRaises ==
    /\ rag_pc = "querying"
    /\ rag_pc' = "raised"
    /\ rag_error' = "IndexError"
    /\ calls' = Append(calls, "find_neighbors.raise")
    /\ UNCHANGED <<rag_theme, num_neighbors, question_embedding, neighbors,
                   retrieved_articles, prompt, rag_result, ext_vars, wf_vars>>

\* generate_content returns; the function returns the stripped text and
\* the retrieved articles
GenerateReturns ==
    /\ rag_pc = "generating"
    /\ \E g \in GeneratedTexts :
         rag_result' = [explanation |-> Strip(g),
                        source_articles |-> retrieved_articles]
    /\ rag_pc' = "returned"
    /\ calls' = Append(calls, "generate.return")
    /\ UNCHANGED <<rag_theme, num_neighbors, question_embedding, neighbors,
                   retrieved_articles, prompt, rag_error, ext_vars, wf_vars>>

\* generate_content raises; nothing in get_rag_explanation catches it
GenerateRaises ==
    /\ rag_pc = "generating"
    /\ rag_pc' = "raised"
    /\ rag_error' = "GenerationError"
    /\ calls' = Append(calls, "generate.raise")
    /\ UNCHANGED <<rag_theme, num_neighbors, question_embedding, neighbors,
                   retrieved_articles, prompt, rag_result, ext_vars, wf_vars>>

(***************************************************************************)
(* Python values of more than one type: None, a string, a dictionary, and  *)
(* a key that is missing from a dictionary.                                *)
(***************************************************************************)
None == [type |-> "NoneType"]
Missing == [type |-> "missing"]
Str(s) == [type |-> "str", value |-> s]
Dict(d) == [type |-> "dict", value |-> d]

\* the truth value of a Python value
Truthy(v) ==
    CASE v.type = "NoneType" -> FALSE
      [] v.type = "missing" -> FALSE
      [] v.type = "str" -> v.value # ""
      [] v.type = "dict" -> DOMAIN v.value # {}

\* dict.get(key, default) on the value stored under the key
Get(v, default) == IF v = Missing THEN default ELSE v

(***************************************************************************)
(* The legal verifier (main_workflow.py, LegalModelVerifier).  Scores and  *)
(* confidences are in hundredths.                                          *)
(***************************************************************************)
PartyTerms ==
    << <<"p","a","r","t","y">>,
       <<"p","a","r","t","i","e","s">>,
       <<"b","e","t","w","e","e","n">> >>
ConsiderationTerms ==
    << <<"c","o","n","s","i","d","e","r","a","t","i","o","n">>,
       <<"p","a","y","m","e","n","t">>,
       <<"s","a","l","a","r","y">>,
       <<"a","m","o","u","n","t">> >>
DurationTerms ==
    << <<"t","e","r","m">>,
       <<"d","u","r","a","t","i","o","n">>,
       <<"p","e","r","i","o","d">> >>
ObligationTerms ==
    << <<"o","b","l","i","g","a","t","i","o","n">>,
       <<"d","u","t","y">>,
       <<"r","e","s","p","o","n","s","i","b","i","l","i","t","y">> >>
EndingTerms ==
    << <<"t","e","r","m","i","n","a","t","i","o","n">>,
       <<"e","n","d">>,
       <<"e","x","p","i","r","y">> >>

\* _extract_legal_issues(text, score)
extract_legal_issues(contract_text, score) ==
    LET text_lower == Lower(contract_text)
        i1 == IF score < 50 THEN <<"Low legal compliance detected">> ELSE <<>>
        i2 == IF score < 30
              THEN Append(i1, "Critical legal issues may be present") ELSE i1
        i3 == IF /\ Contains(text_lower, <<"t","e","r","m","i","n","a","t","i","o","n">>)
                 /\ ~Contains(text_lower, <<"n","o","t","i","c","e">>)
              THEN Append(i2, "Termination clause lacks proper notice requirements")
              ELSE i2
        i4 == IF /\ Contains(text_lower, <<"s","a","l","a","r","y">>)
                 /\ ~Contains(text_lower, <<"m","i","n","i","m","u","m"," ","w","a","g","e">>)
              THEN Append(i3, "Salary terms should reference minimum wage compliance")
              ELSE i3
        i5 == IF /\ Contains(text_lower, <<"c","o","n","f","i","d","e","n","t","i","a","l","i","t","y">>)
                 /\ ~Contains(text_lower, <<"d","u","r","a","t","i","o","n">>)
              THEN Append(i4, "Confidentiality clause lacks duration specification")
              ELSE i4
    IN  i5

\* _generate_recommendations(score)
generate_recommendations(score) ==
    LET r1 == IF score < 70
              THEN <<"Review contract with legal counsel",
                     "Ensure compliance with Indian Contract Act 1872">>
              ELSE <<>>
        r2 == IF score < 50
              THEN r1 \o <<"Major revisions needed for legal compliance",
                           "Add constitutional law compliance clauses">>
              ELSE r1
    IN  Append(r2, "Verify alignment with latest labor law amendments")

\* a fallback that answers with no confidence and says so
pattern_zero_confidence(contract_text) ==
    [compliance_score |-> 0,
     verification_method |-> "Pattern-based Analysis",
     confidence |-> 0,
     legal_issues |-> <<"verification unavailable">>,
     recommendations |-> <<>>]

\* a fallback whose score grows with the calls made before
pattern_counting_calls(contract_text) ==
    [compliance_score |-> Min(20 + Len(ver_log), 100),
     verification_method |-> "Pattern-based Analysis",
     confidence |-> 60,
     legal_issues |-> <<"Pattern-based analysis - limited detail available">>,
     recommendations |->
        <<"Use advanced legal AI models for detailed analysis",
          "Consult legal counsel for comprehensive review">>]

\* _pattern_based_verification(text)
pattern_based_verification(contract_text) ==
    LET text_lower == Lower(contract_text)
        f1 == IF AnyTermIn(PartyTerms, text_lower) THEN 20 ELSE 0
        f2 == IF AnyTermIn(ConsiderationTerms, text_lower) THEN 20 ELSE 0
        f3 == IF AnyTermIn(DurationTerms, text_lower) THEN 15 ELSE 0
        f4 == IF AnyTermIn(ObligationTerms, text_lower) THEN 15 ELSE 0
        f5 == IF AnyTermIn(EndingTerms, text_lower) THEN 10 ELSE 0
        base_score == f1 + f2 + f3 + f4 + f5
    IN  [compliance_score |-> Min(base_score + 20, 100),
         verification_method |-> "Pattern-based Analysis",
         confidence |-> 60,
         legal_issues |-> <<"Pattern-based analysis - limited detail available">>,
         recommendations |->
            <<"Use advanced legal AI models for detailed analysis",
              "Consult legal counsel for comprehensive review">>]

\* the clauses of the texts the verifier is called on
VerifierFragments ==
    { <<"p", "a", "r", "t", "y">>,
      <<"t", "e", "r", "m", "i", "n", "a", "t", "i", "o", "n">>,
      <<"P", "a", "r", "t", "y", " ", "s", "a", "l", "a", "r", "y", " ", "d", "u", "t", "y">>,
      <<"t", "a", "x">> }

VerifierTexts ==
    { Join(<<" ">>, cl) :
        cl \in UNION { [1..n -> VerifierFragments] : n \in 0..MaxClauses } }

\* the outcomes of running the IndianLegalBERT model: an exception, or the
\* probability of the second class
BertOutcomes ==
    {[raises |-> TRUE, score |-> 0]}
        \cup {[raises |-> FALSE, score |-> p] : p \in {20, 45, 90}}

Max(a, b) == IF a >= b THEN a ELSE b

\* the characters of [0-9]
Digits == <<"0", "1", "2", "3", "4", "5", "6", "7", "8", "9">>

DigitSet == { Digits[i] : i \in DOMAIN Digits }

DigitValue(c) == (CHOOSE i \in DOMAIN Digits : Digits[i] = c) - 1

\* the characters of [:\s]
ScoreSeparators == Whitespace \cup {":"}

\* the last place of the longest run of characters of the set that starts
\* at p, p - 1 when the run is empty
RECURSIVE RunEnd(_, _, _)
RunEnd(s, p, set) ==
    IF p <= Len(s) /\ s[p] \in set THEN RunEnd(s, p + 1, set) ELSE p - 1

\* the literal is in s at p
LiteralAt(s, p, literal) ==
    /\ p >= 1
    /\ p + Len(literal) - 1 <= Len(s)
    /\ SubSeq(s, p, p + Len(literal) - 1) = literal

\* the places where a match of [0-9]*\.?[0-9]+ that starts at p can end:
\* some of the leading digits, or all of them, a dot and some of the digits
\* after it; the regex engine tries the later ends first
NumberEnds(s, p) ==
    LET d1 == RunEnd(s, p, DigitSet)
    IN  (p..d1) \cup
        (IF d1 + 1 <= Len(s) /\ s[d1 + 1] = "."
         THEN (d1 + 2)..RunEnd(s, d1 + 2, DigitSet)
         ELSE {})

\* the result of re.search when nothing matches
NoMatch == [from |-> 0, to |-> 0]

\* the smallest and the largest member of a set of places
Leftmost(places) == CHOOSE p \in places : \A r \in places : p <= r
Rightmost(places) == CHOOSE p \in places : \A r \in places : p >= r

\* group 1 of re.search(literal [:\s]* ([0-9]*\.?[0-9]+), s): the number
\* after the leftmost occurrence of the literal that has one after its
\* separators
NumberAfter(s, literal) ==
    LET start(j) == RunEnd(s, j + Len(literal), ScoreSeparators) + 1
        hits == { j \in 1..Len(s) :
                    /\ LiteralAt(s, j, literal)
                    /\ NumberEnds(s, start(j)) # {} }
    IN  IF hits = {} THEN NoMatch
        ELSE [from |-> start(Leftmost(hits)),
              to |-> Rightmost(NumberEnds(s, start(Leftmost(hits))))]

\* group 1 of re.search(([0-9]*\.?[0-9]+) rest, s), given the places the
\* rest of the pattern matches at: the leftmost number with the rest of the
\* pattern right after it
NumberBefore(s, rest_at) ==
    LET ends(p) == { e \in NumberEnds(s, p) : e + 1 \in rest_at }
        hits == { p \in 1..Len(s) : ends(p) # {} }
    IN  IF hits = {} THEN NoMatch
        ELSE [from |-> Leftmost(hits), to |-> Rightmost(ends(Leftmost(hits)))]

\* /1\.0 at p
SlashOne(s, p) == LiteralAt(s, p, <<"/", "1", ".", "0">>)

\* \s*out of\s*1 at p
OutOfOne(s, p) ==
    LET o == RunEnd(s, p, Whitespace) + 1
        one == RunEnd(s, o + 6, Whitespace) + 1
    IN  /\ LiteralAt(s, o, <<"o", "u", "t", " ", "o", "f">>)
        /\ LiteralAt(s, one, <<"1">>)

\* the number a run of digits writes
RECURSIVE IntValue(_)
IntValue(ds) ==
    IF ds = <<>> THEN 0
    ELSE 10 * IntValue(SubSeq(ds, 1, Len(ds) - 1)) + DigitValue(ds[Len(ds)])

\* float(number) in hundredths, the digits after the second decimal dropped
FloatHundredths(number) ==
    LET dots == { i \in DOMAIN number : number[i] = "." }
        dot == IF dots = {} THEN Len(number) + 1 ELSE Leftmost(dots)
        decimals == SubSeq(number, dot + 1, Len(number)) \o <<"0", "0">>
    IN  100 * IntValue(SubSeq(number, 1, dot - 1))
            + IntValue(SubSeq(decimals, 1, 2))

\* the score as it was parsed
Unclamped(score) == score

\* min(max(score, 0.0), 1.0)
Clamp(score) == Min(Max(score, 0), 100)

\* _extract_score_from_text(text): the number of the first of the four
\* patterns that matches, clamped, or a default from the words of the text
extract_score_from_text(analysis) ==
    LET t == Lower(analysis)
        m1 == NumberAfter(t, <<"c", "o", "m", "p", "l", "i", "a", "n", "c", "e", " ", "s", "c", "o", "r", "e">>)
        m2 == NumberAfter(t, <<"s", "c", "o", "r", "e">>)
        m3 == NumberBefore(t, { p \in 1..Len(t) : SlashOne(t, p) })
        m4 == NumberBefore(t, { p \in 1..Len(t) : OutOfOne(t, p) })
        m == IF m1 # NoMatch THEN m1
             ELSE IF m2 # NoMatch THEN m2
             ELSE IF m3 # NoMatch THEN m3
             ELSE m4
    IN  IF m # NoMatch THEN Clamp(FloatHundredths(SubSeq(t, m.from, m.to)))
        ELSE IF \/ Contains(t, <<"c", "o", "m", "p", "l", "i", "a", "n", "t">>)
                \/ Contains(t, <<"g", "o", "o", "d">>)
        THEN 75
        ELSE IF \/ Contains(t, <<"i", "s", "s", "u", "e", "s">>)
                \/ Contains(t, <<"p", "r", "o", "b", "l", "e", "m", "s">>)
        THEN 40
        ELSE 60

\* the analyses the Vertex AI model can answer with
AnalysisTexts ==
    { <<"C", "o", "m", "p", "l", "i", "a", "n", "c", "e", " ", "S", "c", "o", "r", "e", ":", " ", "0", ".", "8", "5">>,
      <<"s", "c", "o", "r", "e", " ", "1", ".", "5">>,
      <<"S", "c", "o", "r", "e", " ", "i", "s", " ", "g", "o", "o", "d", ":", " ", "0", ".", "3", "/", "1", ".", "0">>,
      <<".", "9", " ", "o", "u", "t", " ", "o", "f", " ", "1">>,
      <<"F", "u", "l", "l", "y", " ", "c", "o", "m", "p", "l", "i", "a", "n", "t", ".">>,
      <<"T", "w", "o", " ", "i", "s", "s", "u", "e", "s", ".">>,
      <<"-">> }

\* the outcomes of the Vertex AI call: an exception, or an analysis and the
\* score _extract_score_from_text reads from it
VertexOutcomes ==
    {[raises |-> TRUE, score |-> 0, analysis |-> <<>>]}
        \cup {[raises |-> FALSE, score |-> extract_score_from_text(a),
               analysis |-> a] : a \in AnalysisTexts}

\* verify_legal_compliance(contract_text): the first method that is
\* available and does not raise gives the verdict
verify_legal_compliance(contract_text, bert, vertex) ==
    IF indian_legal_bert /\ ~bert.raises
    THEN [compliance_score |-> bert.score,
          verification_method |-> "IndianLegalBERT",
          confidence |-> bert.score,
          legal_issues |-> extract_legal_issues(contract_text, bert.score),
          recommendations |-> generate_recommendations(bert.score)]
    ELSE IF vertex_model /\ ~vertex.raises
    THEN [compliance_score |-> vertex.score,
          verification_method |-> "Vertex AI Legal Analysis",
          confidence |-> 80,
          legal_issues |-> <<>>,
          recommendations |-> <<>>]
    ELSE pattern_based_verification(contract_text)

\* the methods run with Vertex AI before IndianLegalBERT
verify_attempts_vertex_first(contract_text, bert, vertex) ==
    LET a1 == IF vertex_model
              THEN <<[method |-> "Vertex AI Legal Analysis",
                      raised |-> vertex.raises, score |-> vertex.score,
                      analysis |-> vertex.analysis]>>
              ELSE <<>>
        a2 == IF indian_legal_bert
              THEN Append(a1, [method |-> "IndianLegalBERT",
                               raised |-> bert.raises, score |-> bert.score,
                               analysis |-> <<>>])
              ELSE a1
    IN  IF vertex_model /\ ~vertex.raises THEN a1
        ELSE IF indian_legal_bert /\ ~bert.raises THEN a2
        ELSE Append(a2, [method |-> "Pattern-based Analysis", raised |-> FALSE,
                         score |-> pattern_based_verification(contract_text)
                                       .compliance_score,
                         analysis |-> <<>>])

\* the methods verify_legal_compliance runs, in the order it runs them,
\* each with its end: a method is run when it is available and every
\* method before it was unavailable or raised
verify_attempts(contract_text, bert, vertex) ==
    LET a1 == IF indian_legal_bert
              THEN <<[method |-> "IndianLegalBERT", raised |-> bert.raises,
                      score |-> bert.score, analysis |-> <<>>]>>
              ELSE <<>>
        a2 == IF vertex_model
              THEN Append(a1, [method |-> "Vertex AI Legal Analysis",
                               raised |-> vertex.raises,
                               score |-> vertex.score,
                               analysis |-> vertex.analysis])
              ELSE a1
    IN  IF indian_legal_bert /\ ~bert.raises THEN a1
        ELSE IF vertex_model /\ ~vertex.raises THEN a2
        ELSE Append(a2, [method |-> "Pattern-based Analysis", raised |-> FALSE,
                         score |-> pattern_based_verification(contract_text)
                                       .compliance_score,
                         analysis |-> <<>>])

(***************************************************************************)
(* The workflow (main_workflow.py, ContractAnalysisWorkflow) and the       *)
(* /analyze endpoint.                                                      *)
(***************************************************************************)
\* Field(..., min_length=10) of ContractAnalysisRequest.text
MinTextLength == 10

RequestFragmentLists ==
    UNION { [1..n -> Fragments] : n \in 0..MaxRequestFragments }

\* the texts of the requests that pass the validation of the request model
RequestTexts ==
    { t \in { Join(<<" ">>, ws) : ws \in RequestFragmentLists } :
        Len(t) >= MinTextLength }

\* the public methods of the class ContractSummarizer
SummarizerMethods ==
    {"extract_key_terms", "generate_summary", "get_contract_themes"}

\* every method name resolves
AnyMethod(name) == TRUE

\* self.summarizer.<name> resolves to a method
HasMethod(name) == name \in SummarizerMethods

\* the parameters of get_rag_explanation without a default value
RagRequiredParams == 4

\* the arguments of the call get_rag_explanation(contract_text)
RagCallArgs == 1

\* the dictionaries a summarize_contract call could return
SummaryResults ==
    { [summary |-> Str("PAYMENT: monthly"), key_terms |-> Dict([compensation |-> "monthly"]),
       themes |-> <<"Labor Rights">>],
      [summary |-> Missing, key_terms |-> Missing, themes |-> Missing] }

\* the dictionaries get_rag_explanation can return
RagResults ==
    { [explanation |-> NoArticlesExplanation, source_articles |-> <<>>],
      [explanation |-> <<"o", "k">>, source_articles |-> << <<"A", "1", "4">> >>] }

\* the exceptions that can leave get_rag_explanation once it runs
RagErrors == {"EmbeddingError", "IndexError", "GenerationError"}

\* the last of the themes of a contract text
LastTheme(contract_text) ==
    LET ts == extract_constitutional_themes_from_contract(contract_text)
    IN  ts[Len(ts)]

\* results as analyze_contract creates it
InitialResults ==
    [summary |-> None,
     constitutional_analysis |-> None,
     legal_verification |-> None,
     key_terms |-> Dict(<<>>),
     themes |-> <<>>,
     component_status |-> [summarizer |-> "inactive",
                           legal_verifier |-> "inactive",
                           rag |-> "inactive"],
     errors |-> <<>>,
     comprehensive_analysis |-> Missing]

NoResponse == [status_code |-> 0, success |-> FALSE, exception |-> "none",
               component_status |-> InitialResults.component_status,
               processing_errors |-> <<>>]

\* the workflow object after _initialize_components: the summarizer is
\* None when the ML imports failed or its constructor raised, the legal
\* verifier is None when its constructor raised; IndianLegalBERT is only
\* loaded with the ML imports
InitWorkflow ==
    /\ ml_imports \in BOOLEAN
    /\ summarizer \in {"None", "ContractSummarizer"}
    /\ ~ml_imports => summarizer = "None"
    /\ legal_verifier \in {"None", "LegalModelVerifier"}
    /\ indian_legal_bert \in BOOLEAN
    /\ vertex_model \in BOOLEAN
    /\ ~ml_imports => ~indian_legal_bert
    /\ legal_verifier = "None" => (~indian_legal_bert /\ ~vertex_model)
    /\ failing_theme = "none"
    /\ index_empty = FALSE
    /\ wf_pc = "idle"
    /\ results = InitialResults
    /\ response = NoResponse
    /\ wf_trace = <<>>
    /\ ver_log = <<>>

\* POST /analyze: the endpoint strips the text and calls analyze_contract,
\* which creates results
ReceiveRequest ==
    /\ wf_pc = "idle"
    /\ \E rt \in RequestTexts :
         /\ text' = Strip(rt)
         /\ failing_theme' \in {"none", LastTheme(Strip(rt))}
    /\ index_empty' \in BOOLEAN
    /\ index_empty' => failing_theme' = "none"
    /\ results' = InitialResults
    /\ wf_pc' = "summarize"
    /\ UNCHANGED <<themes, ext_log, rag_vars, components, response, wf_trace,
                   ver_log>>

\* a summarization step that marks the summarizer active before the call
SummarizeStatusFirst ==
    /\ wf_pc = "summarize"
    /\ IF summarizer # "None"
       THEN IF HasMethod("summarize_contract")
            THEN \E r \in SummaryResults :
                   results' = [results EXCEPT
                       !.summary = Get(r.summary, Str("Summary not available")),
                       !.key_terms = Get(r.key_terms, Dict(<<>>)),
                       !.themes = Get(r.themes, <<>>),
                       !.component_status.summarizer = "active"]
            ELSE results' = [results EXCEPT
                     !.component_status.summarizer = "active",
                     !.errors = Append(@, [step |-> "Summarization failed",
                                           exception |-> "AttributeError"]),
                     !.summary =
                        Str("Contract summarization temporarily unavailable")]
       ELSE results' = [results EXCEPT
                !.summary = Str("Contract summarizer not available")]
    /\ wf_trace' = Append(wf_trace,
           [step |-> "summarizer", input |-> text,
            outcome |-> IF summarizer = "None" THEN "skipped"
                        ELSE IF HasMethod("summarize_contract") THEN "ok"
                        ELSE "raised"])
    /\ wf_pc' = "verify"
    /\ UNCHANGED <<ext_vars, rag_vars, components, env_vars, response, ver_log>>

\* 1. Contract Summarization
Summarize ==
    /\ wf_pc = "summarize"
    /\ IF summarizer # "None"
       THEN IF HasMethod("summarize_contract")
            THEN \E r \in SummaryResults :
                   results' = [results EXCEPT
                       !.summary = Get(r.summary, Str("Summary not available")),
                       !.key_terms = Get(r.key_terms, Dict(<<>>)),
                       !.themes = Get(r.themes, <<>>),
                       !.component_status.summarizer = "active"]
            ELSE results' = [results EXCEPT
                     !.errors = Append(@, [step |-> "Summarization failed",
                                           exception |-> "AttributeError"]),
                     !.summary =
                        Str("Contract summarization temporarily unavailable")]
       ELSE results' = [results EXCEPT
                !.summary = Str("Contract summarizer not available")]
    /\ wf_trace' = Append(wf_trace,
           [step |-> "summarizer", input |-> text,
            outcome |-> IF summarizer = "None" THEN "skipped"
                        ELSE IF HasMethod("summarize_contract") THEN "ok"
                        ELSE "raised"])
    /\ wf_pc' = "verify"
    /\ UNCHANGED <<ext_vars, rag_vars, components, env_vars, response, ver_log>>

\* 2. Legal Verification: verify_legal_compliance catches the exceptions of
\* its two models itself and its pattern-based fallback raises nothing, so
\* the call returns a verdict
Verify ==
    /\ wf_pc = "verify"
    /\ IF legal_verifier # "None"
       THEN \E bert \in BertOutcomes, vertex \in VertexOutcomes :
              /\ results' = [results EXCEPT
                     !.legal_verification =
                         Dict(verify_legal_compliance(text, bert, vertex)),
                     !.component_status.legal_verifier = "active"]
              /\ ver_log' = Append(ver_log,
                     [text |-> text,
                      attempts |-> verify_attempts(text, bert, vertex),
                      verdict |-> verify_legal_compliance(text, bert, vertex)])
       ELSE UNCHANGED <<results, ver_log>>
    /\ wf_trace' = Append(wf_trace,
           [step |-> "legal_verifier", input |-> text,
            outcome |-> IF legal_verifier = "None" THEN "skipped" ELSE "ok"])
    /\ wf_pc' = "rag"
    /\ UNCHANGED <<ext_vars, rag_vars, components, env_vars, response>>

\* verify_legal_compliance(contract_text) called on its own
VerifyCall ==
    /\ legal_verifier # "None"
    /\ Len(ver_log) < MaxVerifyCalls
    /\ \E bert \in BertOutcomes, vertex \in VertexOutcomes :
         ver_log' = Append(ver_log,
             [text |-> text,
              attempts |-> verify_attempts(text, bert, vertex),
              verdict |-> verify_legal_compliance(text, bert, vertex)])
    /\ UNCHANGED <<ext_vars, rag_vars, components, env_vars, wf_pc, results,
                   response, wf_trace>>

\* the ends of the call get_rag_explanation(contract_text): the name is not
\* defined without the ML imports, and the call passes one argument where
\* four are required
RagCallOutcomes ==
    IF ~ml_imports THEN {[raises |-> TRUE, exception |-> "NameError"]}
    ELSE IF RagCallArgs < RagRequiredParams
    THEN {[raises |-> TRUE, exception |-> "TypeError"]}
    ELSE IF index_empty
    THEN {[raises |-> FALSE,
           value |-> [explanation |-> NoArticlesExplanation,
                      source_articles |-> <<>>]]}
    ELSE {[raises |-> TRUE, exception |-> e] : e \in RagErrors}
         \cup {[raises |-> FALSE, value |-> r] : r \in RagResults}

\* 3. Constitutional Analysis using RAG
RagStep ==
    /\ wf_pc = "rag"
    /\ \E outcome \in RagCallOutcomes :
         /\ IF outcome.raises
            THEN results' = [results EXCEPT
                     !.errors = Append(@,
                         [step |-> "Constitutional analysis failed",
                          exception |-> outcome.exception]),
                     !.constitutional_analysis =
                         Str("Constitutional analysis temporarily unavailable")]
            ELSE results' = [results EXCEPT
                     !.constitutional_analysis = Dict(outcome.value),
                     !.component_status.rag = "active"]
         /\ wf_trace' = Append(wf_trace,
                [step |-> "rag", input |-> text,
                 outcome |-> IF outcome.raises THEN "raised" ELSE "ok"])
    /\ wf_pc' = "comprehensive"
    /\ UNCHANGED <<ext_vars, rag_vars, components, env_vars, response, ver_log>>

\* the f-string of step 4 calls .get on results['legal_verification']
SummaryTextRaises == results.legal_verification.type # "dict"

\* a step 4 whose exception is not caught
ComprehensiveUncaught ==
    /\ wf_pc = "comprehensive"
    /\ wf_pc' = IF Truthy(results.summary)
                   /\ Truthy(results.constitutional_analysis)
                   /\ SummaryTextRaises
                THEN "raised" ELSE "analyzed"
    /\ results' = [results EXCEPT
           !.comprehensive_analysis = Str("CONTRACT ANALYSIS SUMMARY")]
    /\ wf_trace' = Append(wf_trace,
           [step |-> "comprehensive", input |-> text, outcome |-> "ok"])
    /\ UNCHANGED <<ext_vars, rag_vars, components, env_vars, response, ver_log>>

\* 4. Generate comprehensive analysis, then analyze_contract returns
Comprehensive ==
    /\ wf_pc = "comprehensive"
    /\ IF Truthy(results.summary) /\ Truthy(results.constitutional_analysis)
       THEN IF SummaryTextRaises
            THEN results' = [results EXCEPT
                     !.errors = Append(@,
                         [step |-> "Comprehensive analysis generation failed",
                          exception |-> "AttributeError"])]
            ELSE results' = [results EXCEPT
                     !.comprehensive_analysis = Str("CONTRACT ANALYSIS SUMMARY")]
       ELSE results' = [results EXCEPT
                !.comprehensive_analysis =
                    Str("Partial analysis completed - some components unavailable")]
    /\ wf_trace' = Append(wf_trace,
           [step |-> "comprehensive", input |-> text,
            outcome |-> IF /\ Truthy(results.summary)
                           /\ Truthy(results.constitutional_analysis)
                           /\ SummaryTextRaises
                        THEN "raised" ELSE "ok"])
    /\ wf_pc' = "analyzed"
    /\ UNCHANGED <<ext_vars, rag_vars, components, env_vars, response, ver_log>>

\* LegalVerification(**d): the three required fields, the scores in [0, 1]
ValidVerification(d) ==
    /\ {"compliance_score", "verification_method", "confidence"} \subseteq DOMAIN d
    /\ d.compliance_score \in 0..100
    /\ d.confidence \in 0..100

\* the exception the endpoint meets while it builds the response, "none"
\* when it builds it
ResponseException ==
    LET lv == results.legal_verification IN
    IF Truthy(lv) /\ lv.type = "dict" /\ ~ValidVerification(lv.value)
    THEN "ValidationError"
    ELSE IF \/ Get(results.summary, Str("Not available")).type # "str"
            \/ Get(results.constitutional_analysis, Str("Not available")).type # "str"
    THEN "ValidationError"
    ELSE IF Get(lv, Dict(<<>>)).type # "dict"
    THEN "AttributeError"
    ELSE "none"

\* the rest of analyze_contract_endpoint: the response with the component
\* status and the errors in its metadata, or HTTP 500 on any exception
Respond ==
    /\ wf_pc = "analyzed"
    /\ response' =
         IF ResponseException = "none"
         THEN [status_code |-> 200, success |-> TRUE, exception |-> "none",
               component_status |-> results.component_status,
               processing_errors |-> results.errors]
         ELSE [status_code |-> 500, success |-> FALSE,
               exception |-> ResponseException,
               component_status |-> InitialResults.component_status,
               processing_errors |-> <<>>]
    /\ wf_pc' = "responded"
    /\ UNCHANGED <<ext_vars, rag_vars, components, env_vars, results, wf_trace,
                   ver_log>>

(***************************************************************************)
(* Specifications.                                                         *)
(***************************************************************************)
\* a workflow whose components were all constructed
AllConstructed ==
    /\ ml_imports
    /\ summarizer = "ContractSummarizer"
    /\ legal_verifier = "LegalModelVerifier"
    /\ indian_legal_bert
    /\ vertex_model

\* the theme extractor applied to every text
InitThemes ==
    /\ text \in Texts
    /\ InitExtractor
    /\ InitRag
    /\ InitWorkflow
    /\ AllConstructed

NextThemes == ExtractThemes

SpecThemes == InitThemes /\ [][NextThemes]_vars

\* one call of the RAG retriever with every outcome of the three services
Init ==
    /\ text = <<>>
    /\ InitExtractor
    /\ InitRag
    /\ InitWorkflow
    /\ AllConstructed

Next ==
    \/ RagCall
    \/ EmbedReturns
    \/ EmbedRaises
    \/ FindNeighborsReturns
    \/ FindNeighborsRaises
    \/ GenerateReturns
    \/ GenerateRaises

Spec == Init /\ [][Next]_vars

\* one /analyze request
NextRequest ==
    \/ ReceiveRequest
    \/ Summarize
    \/ Verify
    \/ RagStep
    \/ Comprehensive
    \/ Respond

\* the service after start-up, with every outcome of the construction of
\* its components
InitService ==
    /\ text = <<>>
    /\ InitExtractor
    /\ InitRag
    /\ InitWorkflow

SpecWorkflow == InitService /\ [][NextRequest]_vars

\* the event loop runs the handler of a request until it has responded
FairSpecWorkflow == SpecWorkflow /\ WF_vars(NextRequest)

\* the legal verifier called on its own on the text of a request
InitVerifier ==
    /\ text \in RequestTexts
    /\ InitExtractor
    /\ InitRag
    /\ InitWorkflow
    /\ legal_verifier # "None"

NextVerifier == VerifyCall

SpecVerifier == InitVerifier /\ [][NextVerifier]_vars

\* the legal verifier of a service whose other components were constructed,
\* called on a text of clauses
InitScores ==
    /\ text \in VerifierTexts
    /\ InitExtractor
    /\ InitRag
    /\ InitWorkflow
    /\ ml_imports
    /\ summarizer # "None"
    /\ legal_verifier # "None"

NextScores == VerifyCall

SpecScores == InitScores /\ [][NextScores]_vars

\* one /analyze request, with calls of the theme extractor at any time
NextInterleaved ==
    \/ NextRequest
    \/ ExtractThemes

SpecInterleaved == InitService /\ [][NextInterleaved]_vars

(***************************************************************************)
(* Claims about the theme extractor, checked under SpecThemes.             *)
(***************************************************************************)
\* the six categories in the priority order the claims name
CategoryTerms ==
    <<WorkTerms, CompensationTerms, DueProcessTerms,
      PropertyTerms, TradeTerms, EqualityTerms>>
CategoryTheme ==
    <<WorkTheme, CompensationTheme, DueProcessTheme,
      PropertyTheme, TradeTheme, EqualityTheme>>

\* the priorities of the categories with a keyword in the lower-cased text
MatchedCategories(t) ==
    { c \in 1..6 : AnyTermIn(CategoryTerms[c], Lower(t)) }

\* the category that has exactly i - 1 matched categories before it
NthMatched(t, i) ==
    CHOOSE c \in MatchedCategories(t) :
        Cardinality({ d \in MatchedCategories(t) : d < c }) = i - 1

NoDuplicates(s) ==
    \A i, j \in 1..Len(s) : i # j => s[i] # s[j]

\* C5: the extractor returns between 1 and 3 themes without duplicates;
\* when some category matches, the result is the first (up to three)
\* matched categories in the priority order Work, Compensation, Due
\* Process, Property, Trade, Equality; a text with "employee", "salary" and
\* "termination" yields the first three whatever else matches.
C5_ThemesCappedInPriorityOrder ==
    ext_log # <<>> =>
        /\ Len(themes) \in 1..3
        /\ NoDuplicates(themes)
        /\ MatchedCategories(text) # {} =>
              /\ Len(themes) = Min(3, Cardinality(MatchedCategories(text)))
              /\ \A i \in 1..Len(themes) :
                    themes[i] = CategoryTheme[NthMatched(text, i)]
        /\ {1, 2, 3} \subseteq MatchedCategories(text) =>
              themes = <<WorkTheme, CompensationTheme, DueProcessTheme>>

\* C5 witness: a text with "Employee", "salary", "termination" and a
\* fourth matching category was extracted and capped to the first three.
C5_Witness ==
    /\ ext_log # <<>>
    /\ Cardinality(MatchedCategories(text)) >= 4
    /\ {1, 2, 3} \subseteq MatchedCategories(text)
    /\ themes = <<WorkTheme, CompensationTheme, DueProcessTheme>>

\* C6: the result is the one-element list with the default theme exactly
\* when no keyword of any category occurs in the lower-cased text, and the
\* default theme never stands next to a matched category theme.
C6_DefaultIffNoMatch ==
    ext_log # <<>> =>
        /\ (themes = <<DefaultTheme>>) <=> (MatchedCategories(text) = {})
        /\ (\E i \in 1..Len(themes) : themes[i] = DefaultTheme)
              => themes = <<DefaultTheme>>

\* C6 witness: a non-empty text without any keyword got the default theme,
C6_Witness ==
    /\ ext_log # <<>>
    /\ text # <<>>
    /\ MatchedCategories(text) = {}
    /\ themes = <<DefaultTheme>>

(***************************************************************************)
(* Claims about the RAG retriever, checked under Spec.                     *)
(***************************************************************************)
Occurs(e) == \E i \in 1..Len(calls) : calls[i] = e

\* every occurrence of e in the log has an occurrence of d before it
Precedes(d, e) ==
    \A i \in 1..Len(calls) :
        calls[i] = e => \E j \in 1..(i - 1) : calls[j] = d

\* C1: when the vector index returns zero neighbours, the call returns the
\* fixed "no relevant articles" explanation with an empty source list, and
\* the generative model is never called in that run.
C1_NoNeighboursShortCircuit ==
    (Occurs("find_neighbors.return") /\ neighbors = <<>>) =>
        /\ rag_pc = "returned"
        /\ rag_result.explanation = NoArticlesExplanation
        /\ rag_result.source_articles = <<>>
        /\ ~Occurs("generate.call")

\* C1 witness: the index was queried and returned no neighbour.
C1_Witness ==
    /\ Occurs("find_neighbors.return")
    /\ neighbors = <<>>
    /\ rag_pc = "returned"

\* C2: the source list of a returned result is the sequence of the contents
\* of the neighbours the index returned in that call: same length, same
\* order, same contents.
C2_SourcesAreRetrievedPassages ==
    rag_pc = "returned" =>
        /\ Len(rag_result.source_articles) = Len(neighbors)
        /\ \A i \in 1..Len(neighbors) :
              rag_result.source_articles[i] = neighbors[i].content

\* C2 witness: a result was returned for two neighbours with different
\* contents, after the generative model was called.
C2_Witness ==
    /\ rag_pc = "returned"
    /\ Occurs("generate.return")
    /\ Len(neighbors) = 2
    /\ neighbors[1].content # neighbors[2].content

\* C3: the external calls happen in the order embed, index query, generate:
\* the index is queried only after the embedding call returned, and the
\* generative model is called only after the index query returned a
\* non-empty neighbour list.
C3_EmbedThenQueryThenGenerate ==
    /\ calls # <<>> => calls[1] = "embed.call"
    /\ Precedes("embed.return", "find_neighbors.call")
    /\ Precedes("find_neighbors.return", "generate.call")
    /\ Occurs("generate.call") => neighbors # <<>>

\* C3 witness: a run that made all three calls.
C3_Witness ==
    /\ Occurs("embed.call")
    /\ Occurs("find_neighbors.call")
    /\ Occurs("generate.return")
    /\ rag_pc = "returned"

\* C4: a failure of the embedding call, the index query or the generative
\* call is reported as a structured error in the returned result (status
\* "failed", an error field naming the failure) and is never raised out of
\* the retriever.
C4_FailureReportedNotRaised ==
    (Occurs("embed.raise") \/ Occurs("find_neighbors.raise")
        \/ Occurs("generate.raise")) =>
        /\ rag_pc = "returned"
        /\ "status" \in DOMAIN rag_result
        /\ rag_result.status = "failed"
        /\ "error" \in DOMAIN rag_result
        /\ rag_result.error = rag_error

(***************************************************************************)
(* Claims about the workflow and the /analyze endpoint.                    *)
(***************************************************************************)
\* C7: the theme extractor is deterministic and free of side effects: a
\* call changes nothing but its own result, and calls with the same text,
\* made at any place of a request, return the same list.  Checked under
\* SpecInterleaved.
C7_ExtractorDeterministicAndPure ==
    [][ext_log' # ext_log =>
          /\ UNCHANGED <<text, rag_vars, wf_vars>>
          /\ \A i \in 1..Len(ext_log') :
                ext_log'[i].text = text => ext_log'[i].themes = themes'
       ]_vars

\* C7 witness: the extractor was called twice on the same non-empty text,
\* at two different places of the request.
C7_Witness ==
    /\ Len(ext_log) = 2
    /\ ext_log[1].text = ext_log[2].text
    /\ ext_log[1].text # <<>>
    /\ ext_log[1].at # ext_log[2].at

\* C8: whatever fails, analyze_contract reaches its end and returns its
\* report: no exception of the summarizer, the legal verifier, the RAG step
\* or of assembling the comprehensive analysis leaves it.  Checked under
\* FairSpecWorkflow.
C8_AnalyzeAlwaysReturns ==
    /\ [](wf_pc # "raised")
    /\ (wf_pc = "summarize") ~> (wf_pc = "analyzed")

\* C8 witness: analyze_contract returned although the summarizer call, the
\* RAG call and the comprehensive analysis raised and there was no legal
\* verifier.
C8_Witness ==
    /\ wf_pc = "analyzed"
    /\ summarizer # "None"
    /\ legal_verifier = "None"
    /\ Len(results.errors) = 3
    /\ results.comprehensive_analysis = Missing

\* C9: when a component failed or is unavailable, /analyze still returns a
\* successful response with the failure in its metadata (component_status,
\* processing_errors), never an HTTP 500.
C9_ComponentFailureStillSucceeds ==
    (/\ wf_pc = "responded"
     /\ \E c \in DOMAIN results.component_status :
            results.component_status[c] # "active") =>
        /\ response.status_code = 200
        /\ response.success
        /\ response.component_status = results.component_status
        /\ response.processing_errors = results.errors

\* the status of a theme's branch in the report: the report has one RAG
\* status for the whole contract
BranchStatus(theme) ==
    IF results.component_status.rag = "active" THEN "success" ELSE "failed"

\* C10: in a run over several themes, a branch is failed exactly when the
\* failure was injected in that theme's branch; the other themes' branches
\* are as they are without the failure.
C10_BranchIndependence ==
    wf_pc \in {"analyzed", "responded"} =>
        LET ts == extract_constitutional_themes_from_contract(text) IN
        Len(ts) >= 2 =>
            \A i \in 1..Len(ts) :
                (BranchStatus(ts[i]) = "failed") <=> (ts[i] = failing_theme)

\* the request is through analyze_contract
Analyzed == wf_pc \in {"analyzed", "responded"}

\* the places in the trace where a step ran, that is was not skipped
StepRuns(step) ==
    { k \in DOMAIN wf_trace :
        wf_trace[k].step = step /\ wf_trace[k].outcome # "skipped" }

\* C11: a request goes through one retrieval per extracted theme, with the
\* theme as the query, a verification only after a retrieval, and the
\* aggregation after every other step.
C11_PerThemeRetrieveThenVerify ==
    Analyzed =>
        LET ts == extract_constitutional_themes_from_contract(text) IN
        /\ \A i \in 1..Len(ts) :
              Cardinality({ k \in StepRuns("rag") :
                              wf_trace[k].input = <<ts[i]>> }) = 1
        /\ \A v \in StepRuns("legal_verifier") :
              \E r \in StepRuns("rag") : r < v
        /\ \A a \in StepRuns("comprehensive") :
              \A k \in DOMAIN wf_trace : k <= a

\* C12: a verdict is in the results only with an explanation whose sources
\* are known, and what the verifier was given is the list of these sources.
C12_VerdictOverGenerationSources ==
    results.legal_verification.type = "dict" =>
        /\ results.constitutional_analysis.type = "dict"
        /\ "source_articles" \in DOMAIN results.constitutional_analysis.value
        /\ \A k \in DOMAIN ver_log :
              <<ver_log[k].text>> =
                  results.constitutional_analysis.value.source_articles

\* C13: when the index returns no neighbour, the verdict is "not applicable"
\* without a score or a confidence, and every theme's status in the report
\* is "success-ungrounded".
C13_EmptySourcesNotApplicable ==
    (Analyzed /\ index_empty) =>
        /\ results.legal_verification.type = "dict" =>
              LET v == results.legal_verification.value IN
              /\ "compliance_score" \notin DOMAIN v
              /\ "confidence" \notin DOMAIN v
        /\ LET ts == extract_constitutional_themes_from_contract(text) IN
           \A i \in 1..Len(ts) : BranchStatus(ts[i]) = "success-ungrounded"

\* the strings the code uses to say that a step gave nothing
ErrorSentinels ==
    { "Contract summarization temporarily unavailable",
      "Contract summarizer not available",
      "Constitutional analysis temporarily unavailable" }

\* C15: in the results returned by analyze_contract no text field (summary,
\* constitutional_analysis) holds an error sentinel.
C15_NoSentinelInTextFields ==
    Analyzed =>
        \A f \in {"summary", "constitutional_analysis"} :
            results[f].type = "str" => results[f].value \notin ErrorSentinels

\* every call of an external service made in the request succeeded
AllServicesSucceed ==
    /\ failing_theme = "none"
    /\ \A k \in DOMAIN ver_log :
          \A i \in DOMAIN ver_log[k].attempts : ~ver_log[k].attempts[i].raised

\* C18: with the summarizer and the legal verifier constructed and every
\* service call succeeding, analyze_contract returns no error, three active
\* components, the summarizer's summary and the retriever's result.
C18_AllActiveWhenServicesSucceed ==
    (/\ Analyzed
     /\ summarizer # "None"
     /\ legal_verifier # "None"
     /\ AllServicesSucceed) =>
        /\ results.errors = <<>>
        /\ \A c \in DOMAIN results.component_status :
              results.component_status[c] = "active"
        /\ results.summary \in
              { Get(r.summary, Str("Summary not available")) :
                  r \in SummaryResults }
        /\ results.constitutional_analysis.type = "dict"

\* p is at the start of s
IsPrefix(p, s) == Len(p) <= Len(s) /\ SubSeq(s, 1, Len(p)) = p

\* the parts of s between the occurrences of sep
RECURSIVE SplitOn(_, _)
SplitOn(sep, s) ==
    LET hits == { i \in 1..Len(s) : IsPrefix(sep, SubSeq(s, i, Len(s))) }
    IN  IF hits = {} THEN <<s>>
        ELSE LET i == CHOOSE h \in hits : \A j \in hits : h <= j
             IN  <<SubSeq(s, 1, i - 1)>>
                     \o SplitOn(sep, SubSeq(s, i + Len(sep), Len(s)))

\* C17: once the generative model was called, the passages in the context
\* of the prompt are the retrieved articles, in retrieval order, and on
\* return they are the passages of the result's source list.
C17_PromptContextIsSources ==
    Occurs("generate.call") =>
        /\ SplitOn(ArticleSeparator, prompt[2]) = retrieved_articles
        /\ rag_pc = "returned" =>
              SplitOn(ArticleSeparator, prompt[2]) = rag_result.source_articles

\* C17 witness: a result was returned whose prompt had two different
\* passages in its context, the second neighbour of the index first.
C17_Witness ==
    /\ rag_pc = "returned"
    /\ Occurs("generate.call")
    /\ Len(rag_result.source_articles) = 2
    /\ neighbors[1].id = 2
    /\ neighbors[2].id = 1

(***************************************************************************)
(* Claims about the legal verifier, checked under SpecVerifier.            *)
(***************************************************************************)
\* the methods of the verifier in the order of the code
MethodOrder ==
    <<"IndianLegalBERT", "Vertex AI Legal Analysis", "Pattern-based Analysis">>

Rank(method) == CHOOSE i \in DOMAIN MethodOrder : MethodOrder[i] = method

\* the method can be run on this verifier
Available(method) ==
    CASE method = "IndianLegalBERT" -> indian_legal_bert
      [] method = "Vertex AI Legal Analysis" -> vertex_model
      [] method = "Pattern-based Analysis" -> TRUE

\* the method was run in the call and raised
RaisedIn(call, method) ==
    \E i \in DOMAIN call.attempts :
        call.attempts[i].method = method /\ call.attempts[i].raised

\* in the call both model-based methods were unavailable or failed
ModelsUnavailableOrFailed(call) ==
    \A m \in {"IndianLegalBERT", "Vertex AI Legal Analysis"} :
        ~Available(m) \/ RaisedIn(call, m)

\* no method was run twice in the call
NoRetry(call) ==
    \A i, j \in DOMAIN call.attempts :
        call.attempts[i].method = call.attempts[j].method => i = j

ModelAttempts(call) ==
    SelectSeq(call.attempts, LAMBDA a : a.method # "Pattern-based Analysis")

C19_FirstWorkingMethodInOrder ==
    \A k \in DOMAIN ver_log :
        LET a == ver_log[k].attempts
            last == a[Len(a)]
        IN  /\ Len(a) >= 1
            /\ \A i, j \in DOMAIN a :
                  i < j => Rank(a[i].method) < Rank(a[j].method)
            /\ \A i \in DOMAIN a : Available(a[i].method)
            /\ \A i \in DOMAIN a : a[i].raised <=> i < Len(a)
            /\ \A m \in {"IndianLegalBERT", "Vertex AI Legal Analysis"} :
                  (Available(m) /\ Rank(m) < Rank(last.method)) =>
                      \E i \in DOMAIN a : a[i].method = m
            /\ ver_log[k].verdict.verification_method = last.method
            /\ (last.method = "Pattern-based Analysis")
                  <=> ModelsUnavailableOrFailed(ver_log[k])

\* C19 witness: a call in which IndianLegalBERT raised and Vertex AI gave
\* the verdict.
C19_Witness ==
    \E k \in DOMAIN ver_log :
        /\ RaisedIn(ver_log[k], "IndianLegalBERT")
        /\ Len(ver_log[k].attempts) = 2
        /\ ver_log[k].verdict.verification_method = "Vertex AI Legal Analysis"

(***************************************************************************)
(* Claims about the bookkeeping of analyze_contract, under SpecWorkflow.   *)
(***************************************************************************)
\* the start of the error messages of a step
StepErrorLabel ==
    [summarizer |-> "Summarization failed",
     legal_verifier |-> "Legal verification failed",
     rag |-> "Constitutional analysis failed"]

\* the result field a step writes
StepResultField ==
    [summarizer |-> "summary",
     legal_verifier |-> "legal_verification",
     rag |-> "constitutional_analysis"]

\* the step analyze_contract is about to run
StepAt ==
    [summarize |-> "summarizer", verify |-> "legal_verifier", rag |-> "rag"]

\* the places in the trace where the step ended with the outcome
StepEnds(step, outcome) ==
    { k \in DOMAIN wf_trace :
        wf_trace[k].step = step /\ wf_trace[k].outcome = outcome }

\* a step of analyze_contract leaves the status and the result field of the
\* two other steps as they were
OtherStepsUntouched ==
    wf_pc \in DOMAIN StepAt =>
        \A c \in DOMAIN StepErrorLabel \ {StepAt[wf_pc]} :
            /\ results'.component_status[c] = results.component_status[c]
            /\ results'[StepResultField[c]] = results[StepResultField[c]]

\* C20: in the results analyze_contract returns, a step's status is
\* "active" exactly when the step ran to its end, errors has one message
\* for every step that raised and none for another step, and a step leaves
\* the status and the result field of the two other steps as they were.
C20_StatusAndErrorsFollowSteps ==
    /\ [](Analyzed =>
            \A c \in DOMAIN StepErrorLabel :
                /\ results.component_status[c] = "active"
                      <=> StepEnds(c, "ok") # {}
                /\ Cardinality({ i \in DOMAIN results.errors :
                                   results.errors[i].step = StepErrorLabel[c] })
                      = Cardinality(StepEnds(c, "raised"))
                /\ Cardinality(StepEnds(c, "raised")) <= 1)
    /\ [][OtherStepsUntouched]_vars

\* C20 witness: analyze_contract returned after the summarizer call and the
\* RAG call raised and the legal verifier gave a verdict.
C20_Witness ==
    /\ Analyzed
    /\ StepEnds("summarizer", "raised") # {}
    /\ StepEnds("legal_verifier", "ok") # {}
    /\ StepEnds("rag", "raised") # {}
    /\ results.component_status.legal_verifier = "active"

(***************************************************************************)
(* Claims about the scores of the legal verifier, under SpecScores.        *)
(***************************************************************************)
\* the term lists of the pattern-based analysis and their weights
LegalCategoryTerms ==
    <<PartyTerms, ConsiderationTerms, DurationTerms, ObligationTerms,
      EndingTerms>>

LegalCategoryWeights == <<20, 20, 15, 15, 10>>

\* the categories with a term in the text
MatchedLegalCategories(contract_text) ==
    { c \in DOMAIN LegalCategoryTerms :
        AnyTermIn(LegalCategoryTerms[c], Lower(contract_text)) }

\* the sum of the weights of a set of categories
RECURSIVE WeightSum(_)
WeightSum(categories) ==
    IF categories = {} THEN 0
    ELSE LET c == CHOOSE x \in categories : TRUE
         IN  LegalCategoryWeights[c] + WeightSum(categories \ {c})

\* C21: every verdict of the verifier has its score and its confidence in
\* [0, 1]; a pattern-based score is min(0.2 + the weights of the matched
\* categories, 1.0), lies in [0.2, 1.0] and is not lower for the text with
\* one more clause; a score read from the text of the model lies in [0, 1].
C21_ScoresWithinUnitInterval ==
    \A k \in DOMAIN ver_log :
        LET call == ver_log[k]
            v == call.verdict
        IN  /\ v.compliance_score \in 0..100
            /\ v.confidence \in 0..100
            /\ v.verification_method = "Pattern-based Analysis" =>
                  /\ v.compliance_score =
                        Min(20 + WeightSum(MatchedLegalCategories(call.text)),
                            100)
                  /\ v.compliance_score \in 20..100
                  /\ \A f \in VerifierFragments :
                        pattern_based_verification(call.text \o <<" ">> \o f)
                            .compliance_score >= v.compliance_score
            /\ v.verification_method = "Vertex AI Legal Analysis" =>
                  /\ v.compliance_score =
                        extract_score_from_text(
                            call.attempts[Len(call.attempts)].analysis)
                  /\ v.compliance_score \in 0..100

\* C21 witness: one call gave the pattern-based verdict with all five
\* categories matched, score 1.0, and another the verdict of the model for
\* an analysis that names the score 1.5.
C21_Witness ==
    /\ \E k \in DOMAIN ver_log :
          /\ ver_log[k].verdict.verification_method = "Pattern-based Analysis"
          /\ Cardinality(MatchedLegalCategories(ver_log[k].text)) = 5
          /\ ver_log[k].verdict.compliance_score = 100
    /\ \E k \in DOMAIN ver_log :
          /\ ver_log[k].verdict.verification_method = "Vertex AI Legal Analysis"
          /\ ver_log[k].attempts[Len(ver_log[k].attempts)].analysis =
                <<"s", "c", "o", "r", "e", " ", "1", ".", "5">>
          /\ ver_log[k].verdict.compliance_score = 100
====
